---- MODULE Spec2Model ----
(***************************************************************************)
(* Multi-Agent Tutorial Generator.                                         *)
(*                                                                         *)
(* Part I  : the backend's key pool and the with_api_key_rotation wrapper  *)
(*           (backend_setup_guide.md, main.py), run by several concurrent  *)
(*           requests that share GEMINI_API_KEYS and current_key_index.    *)
(* Part II : the frontend pipeline startFullGenerationProcess (App.tsx)    *)
(*           with the store completedTutorialParts.                        *)
(* Part III: the backend's search handler fetch_from_internet, one request *)
(*           after another, from the primary scrape to the summary.        *)
(* Part IV : the sections field of the form (TopicInput.tsx) and what a    *)
(*           submission hands to the pipeline.                             *)
(*                                                                         *)
(* Text is a sequence of tokens: a letter, the blank " ", the newline, the *)
(* heading prefix "## " and the marker "(requires_search)" are one token   *)
(* each.                                                                   *)
(***************************************************************************)
EXTENDS Integers, Sequences, FiniteSets, TLC

(***************************************************************************)
(* Bounds                                                                  *)
(***************************************************************************)
\* largest credential pool explored when requests overlap, and when one
\* request runs at a time (main.py reads at most API_KEY_1 .. API_KEY_5)
MaxSharedKeys == 2
MaxKeys == 4
\* number of requests that may be inside the wrapper at the same time
NumRequests == 2
\* longest outline the model returns
MaxOutline == 3
\* most results a search page or the fallback provider returns
MaxRaw == 9

(***************************************************************************)
(* Part I : state                                                          *)
(***************************************************************************)
VARIABLES
    GEMINI_API_KEYS,     \* the credential list, fixed at startup
    current_key_index,   \* the shared cursor (global current_key_index)
    pc,                  \* per request: where its wrapper call stands
    func,                \* per request: the function the wrapper decorates
    i,                   \* per request: the loop variable of the wrapper
    key_to_use,          \* per request: index of the credential it read
    modelOutcome,        \* per request: what the last model call did
    response,            \* per request: how the wrapper call ended
    attempts,            \* history: number of calls of func made by this call
    rejected,            \* history: positions this call saw rejected for quota
    successes            \* history: successful underlying calls of this call

keyVars == <<GEMINI_API_KEYS, current_key_index, pc, func, i, key_to_use,
             modelOutcome, response, attempts, rejected, successes>>

(***************************************************************************)
(* Part II : state of the page (App.tsx)                                   *)
(***************************************************************************)
VARIABLES
    outlineHeadings,          \* useState: the cleaned headings
    completedTutorialParts,   \* useState: the store of finished sections
    isLoading,                \* useState
    error,                    \* useState: "null" or the kind of the message
    isTutorialComplete,       \* useState
    currentAgentActivity,     \* useState: "null" or the agent at work
    runPc,                    \* where startFullGenerationProcess stands
    processingPlan,           \* local: [raw, cleaned, requiresSearch] per entry
    planIndex,                \* local: the loop variable i (from 0)
    previousSectionContext,   \* local
    internetSearchContext,    \* local: "undefined" or the summary text
    sourcesForSection,        \* local: undefined, or the list of sources
    agentCalls,               \* history: the agent calls of this run
    searchFailed,             \* history: <<entry, status>> of the search calls that threw
    contentFailedAt,          \* history: entry whose content call threw, or 0
    service,                  \* the build of services/geminiService.ts in use
    outline                   \* local of agent1GenerateOutline: the parsed reply,
                              \* kept until the next await of the run returns

runVars == <<outlineHeadings, completedTutorialParts, isLoading, error,
             isTutorialComplete, currentAgentActivity, runPc, processingPlan,
             planIndex, previousSectionContext, internetSearchContext,
             sourcesForSection, agentCalls, searchFailed, contentFailedAt,
             service, outline>>

(***************************************************************************)
(* Part III : state of the search backend (main.py, fetch_from_internet)   *)
(***************************************************************************)
VARIABLES
    SERPER_API_KEY,      \* os.getenv("SERPER_API_KEY") is set
    searchPc,            \* where the handler of the request stands
    primaryPage,         \* history: what the primary search page held
    serperReply,         \* history: what the fallback provider answered
    search_results,      \* local: the list the handler collects
    searchResponse,      \* the HTTP status and body of the answer
    fallbackEntered,     \* history: the except branch of the scrape was run
    serperCalls,         \* history: requests sent to the fallback provider
    summaryCalls         \* history: calls of get_summary_from_gemini

searchVars == <<SERPER_API_KEY, searchPc, primaryPage, serperReply,
                search_results, searchResponse, fallbackEntered, serperCalls,
                summaryCalls>>

(***************************************************************************)
(* Part IV : state of the form (components/TopicInput.tsx) and what was    *)
(* submitted from it                                                       *)
(***************************************************************************)
VARIABLES
    numSections,         \* useState: the number held by the sections field
    validNumSections,    \* the section count handed to onSubmit, 0 before
                         \* the first submission
    topic                \* useState of App: the topic of the last run started

formVars == <<numSections, validNumSections, topic>>

vars == <<keyVars, runVars, searchVars, formVars>>

Requests == 1..NumRequests

\* The endpoints whose body is "try: ... except Exception: raise HTTPException(500)".
GuardedEndpoints == {"analyze_query", "generate_outline", "generate_content", "simplify_text"}

\* Every function decorated with @with_api_key_rotation.
DecoratedFunctions == GuardedEndpoints \cup {"get_summary_from_gemini"}

\* What a call of the model can do.
ModelOutcomes == {"ok", "ResourceExhausted", "Exception"}

NumKeys == Len(GEMINI_API_KEYS)

\* API_KEY_1 .. API_KEY_n, the ones that are set.
KeyList(n) == [k \in 1..n |-> k]

(***************************************************************************)
(* Part I : the code's pure steps                                          *)
(***************************************************************************)
\* What leaves the decorated function f when its model call does `outcome`:
\* the endpoints catch every Exception and raise HTTPException(500) instead;
\* get_summary_from_gemini has no handler of its own.
FuncRaises(f, outcome) ==
    IF outcome = "ok" THEN "ok"
    ELSE IF f \in GuardedEndpoints THEN "HTTPException500"
    ELSE outcome

\* variant: the cursor is advanced without wrapping
AdvanceIndexNoWrap(c, n) == c + 1

\* current_key_index = (current_key_index + 1) % len(GEMINI_API_KEYS)
AdvanceIndex(c, n) == (c + 1) % n

\* variant: the last iteration is taken to be the one before it
IsLastIterationEarly(j, n) == j = n - 2

\* if i == len(GEMINI_API_KEYS) - 1
IsLastIteration(j, n) == j = n - 1

\* for i in range(len(GEMINI_API_KEYS))
InRange(j, n) == j < n


(***************************************************************************)
(* Part I : actions                                                        *)
(***************************************************************************)
InitPool(maxN) ==
    /\ \E n \in 1..maxN : GEMINI_API_KEYS = KeyList(n)
    /\ current_key_index = 0
    /\ pc = [p \in Requests |-> "idle"]
    /\ func = [p \in Requests |-> "generate_content"]
    /\ i = [p \in Requests |-> 0]
    /\ key_to_use = [p \in Requests |-> 0]
    /\ modelOutcome = [p \in Requests |-> "none"]
    /\ response = [p \in Requests |-> "none"]
    /\ attempts = [p \in Requests |-> 0]
    /\ rejected = [p \in Requests |-> {}]
    /\ successes = [p \in Requests |-> 0]

\* A request enters wrapper(*args, **kwargs): for i in range(len(GEMINI_API_KEYS)).
Call(p) ==
    /\ pc[p] \in {"idle", "done"}
    /\ \E f \in DecoratedFunctions : func' = [func EXCEPT ![p] = f]
    /\ pc' = [pc EXCEPT ![p] = "read"]
    /\ i' = [i EXCEPT ![p] = 0]
    /\ modelOutcome' = [modelOutcome EXCEPT ![p] = "none"]
    /\ response' = [response EXCEPT ![p] = "none"]
    /\ attempts' = [attempts EXCEPT ![p] = 0]
    /\ rejected' = [rejected EXCEPT ![p] = {}]
    /\ successes' = [successes EXCEPT ![p] = 0]
    /\ UNCHANGED <<GEMINI_API_KEYS, current_key_index, key_to_use>>
    /\ UNCHANGED runVars
    /\ UNCHANGED searchVars
    /\ UNCHANGED formVars

\* with key_lock: key_to_use = GEMINI_API_KEYS[current_key_index];
\* genai.configure(api_key=key_to_use); the call of func starts.
ReadKey(p) ==
    /\ pc[p] = "read"
    /\ key_to_use' = [key_to_use EXCEPT ![p] = current_key_index]
    /\ attempts' = [attempts EXCEPT ![p] = @ + 1]
    /\ modelOutcome' = [modelOutcome EXCEPT ![p] = "none"]
    /\ pc' = [pc EXCEPT ![p] = "await"]
    /\ UNCHANGED <<GEMINI_API_KEYS, current_key_index, func, i, response,
                   rejected, successes>>
    /\ UNCHANGED runVars
    /\ UNCHANGED searchVars
    /\ UNCHANGED formVars

\* variant: a successful call rotates the key as well
SuccessRotates(p) ==
    /\ pc[p] = "await"
    /\ modelOutcome' = [modelOutcome EXCEPT ![p] = "ok"]
    /\ successes' = [successes EXCEPT ![p] = @ + 1]
    /\ response' = [response EXCEPT ![p] = "200"]
    /\ pc' = [pc EXCEPT ![p] = "done"]
    /\ i' = [i EXCEPT ![p] = 0]
    /\ key_to_use' = [key_to_use EXCEPT ![p] = 0]
    /\ current_key_index' = (current_key_index + 1) % NumKeys
    /\ UNCHANGED <<GEMINI_API_KEYS, func, attempts, rejected>>
    /\ UNCHANGED runVars
    /\ UNCHANGED searchVars
    /\ UNCHANGED formVars

\* variant: the result of a successful call is not returned, the loop goes on
SuccessContinues(p) ==
    /\ pc[p] = "await"
    /\ modelOutcome' = [modelOutcome EXCEPT ![p] = "ok"]
    /\ successes' = [successes EXCEPT ![p] = @ + 1]
    /\ IF i[p] + 1 < NumKeys
       THEN /\ i' = [i EXCEPT ![p] = @ + 1]
            /\ pc' = [pc EXCEPT ![p] = "read"]
            /\ UNCHANGED <<response, key_to_use>>
       ELSE /\ response' = [response EXCEPT ![p] = "200"]
            /\ pc' = [pc EXCEPT ![p] = "done"]
            /\ i' = [i EXCEPT ![p] = 0]
            /\ key_to_use' = [key_to_use EXCEPT ![p] = 0]
    /\ UNCHANGED <<GEMINI_API_KEYS, current_key_index, func, attempts, rejected>>
    /\ UNCHANGED runVars
    /\ UNCHANGED searchVars
    /\ UNCHANGED formVars

\* return await func(*args, **kwargs) returns a value; the wrapper's locals go.
Success(p) ==
    /\ pc[p] = "await"
    /\ FuncRaises(func[p], "ok") = "ok"
    /\ modelOutcome' = [modelOutcome EXCEPT ![p] = "ok"]
    /\ successes' = [successes EXCEPT ![p] = @ + 1]
    /\ response' = [response EXCEPT ![p] = "200"]
    /\ pc' = [pc EXCEPT ![p] = "done"]
    /\ i' = [i EXCEPT ![p] = 0]
    /\ key_to_use' = [key_to_use EXCEPT ![p] = 0]
    /\ UNCHANGED <<GEMINI_API_KEYS, current_key_index, func, attempts, rejected>>
    /\ UNCHANGED runVars
    /\ UNCHANGED searchVars
    /\ UNCHANGED formVars

\* except google_exceptions.ResourceExhausted:
\*     with key_lock: current_key_index = (current_key_index + 1) % len(...)
\*     if i == len(GEMINI_API_KEYS) - 1: raise HTTPException(status_code=429)
\* and otherwise the loop goes on with the next i.
QuotaRejected(p) ==
    /\ pc[p] = "await"
    /\ \E o \in ModelOutcomes \ {"ok"} :
          /\ FuncRaises(func[p], o) = "ResourceExhausted"
          /\ modelOutcome' = [modelOutcome EXCEPT ![p] = o]
    /\ rejected' = [rejected EXCEPT ![p] = @ \cup {key_to_use[p]}]
    /\ current_key_index' = AdvanceIndex(current_key_index, NumKeys)
    /\ IF IsLastIteration(i[p], NumKeys)
       THEN /\ response' = [response EXCEPT ![p] = "429"]
            /\ pc' = [pc EXCEPT ![p] = "done"]
            /\ i' = [i EXCEPT ![p] = 0]
            /\ key_to_use' = [key_to_use EXCEPT ![p] = 0]
       ELSE IF InRange(i[p] + 1, NumKeys)
       THEN /\ i' = [i EXCEPT ![p] = @ + 1]
            /\ pc' = [pc EXCEPT ![p] = "read"]
            /\ UNCHANGED <<response, key_to_use>>
       ELSE \* the loop is over: raise HTTPException(status_code=500, "Failed to execute ...")
            /\ response' = [response EXCEPT ![p] = "500"]
            /\ pc' = [pc EXCEPT ![p] = "done"]
            /\ i' = [i EXCEPT ![p] = 0]
            /\ key_to_use' = [key_to_use EXCEPT ![p] = 0]
    /\ UNCHANGED <<GEMINI_API_KEYS, func, attempts, successes>>
    /\ UNCHANGED runVars
    /\ UNCHANGED searchVars
    /\ UNCHANGED formVars

\* variant: any error rotates the key and the loop goes on
OtherErrorRetries(p) ==
    /\ pc[p] = "await"
    /\ \E o \in ModelOutcomes \ {"ok"} :
          /\ FuncRaises(func[p], o) \notin {"ok", "ResourceExhausted"}
          /\ modelOutcome' = [modelOutcome EXCEPT ![p] = o]
    /\ current_key_index' = (current_key_index + 1) % NumKeys
    /\ IF i[p] = NumKeys - 1
       THEN /\ response' = [response EXCEPT ![p] = "500"]
            /\ pc' = [pc EXCEPT ![p] = "done"]
            /\ i' = [i EXCEPT ![p] = 0]
            /\ key_to_use' = [key_to_use EXCEPT ![p] = 0]
       ELSE /\ i' = [i EXCEPT ![p] = @ + 1]
            /\ pc' = [pc EXCEPT ![p] = "read"]
            /\ UNCHANGED <<response, key_to_use>>
    /\ UNCHANGED <<GEMINI_API_KEYS, func, attempts, rejected, successes>>
    /\ UNCHANGED runVars
    /\ UNCHANGED searchVars
    /\ UNCHANGED formVars

\* except Exception as e: raise HTTPException(status_code=500, detail=str(e))
OtherError(p) ==
    /\ pc[p] = "await"
    /\ \E o \in ModelOutcomes \ {"ok"} :
          /\ FuncRaises(func[p], o) \notin {"ok", "ResourceExhausted"}
          /\ modelOutcome' = [modelOutcome EXCEPT ![p] = o]
    /\ response' = [response EXCEPT ![p] = "500"]
    /\ pc' = [pc EXCEPT ![p] = "done"]
    /\ i' = [i EXCEPT ![p] = 0]
    /\ key_to_use' = [key_to_use EXCEPT ![p] = 0]
    /\ UNCHANGED <<GEMINI_API_KEYS, current_key_index, func, attempts, rejected,
                   successes>>
    /\ UNCHANGED runVars
    /\ UNCHANGED searchVars
    /\ UNCHANGED formVars

(***************************************************************************)
(* Part II : text                                                          *)
(***************************************************************************)
Min(a, b) == IF a <= b THEN a ELSE b

Whitespace == {" ", "\n"}

\* the literal "(requires_search)"
MARKER == <<"(requires_search)">>

\* String.prototype.includes
Includes(s, t) ==
    \E k \in 1..(Len(s) - Len(t) + 1) : SubSeq(s, k, k + Len(t) - 1) = t

\* String.prototype.replace with a string pattern: the first occurrence only
ReplaceFirst(s, t, r) ==
    IF ~Includes(s, t) THEN s
    ELSE LET k == CHOOSE k \in 1..(Len(s) - Len(t) + 1) :
                      /\ SubSeq(s, k, k + Len(t) - 1) = t
                      /\ \A j \in 1..(k - 1) : SubSeq(s, j, j + Len(t) - 1) # t
         IN  SubSeq(s, 1, k - 1) \o r \o SubSeq(s, k + Len(t), Len(s))

\* String.prototype.trim
Trim(s) ==
    IF \A k \in 1..Len(s) : s[k] \in Whitespace THEN <<>>
    ELSE LET lo == CHOOSE k \in 1..Len(s) :
                       s[k] \notin Whitespace /\ \A j \in 1..(k - 1) : s[j] \in Whitespace
             hi == CHOOSE k \in 1..Len(s) :
                       s[k] \notin Whitespace /\ \A j \in (k + 1)..Len(s) : s[j] \in Whitespace
         IN  SubSeq(s, lo, hi)

\* String.prototype.startsWith
StartsWith(s, t) == Len(t) <= Len(s) /\ SubSeq(s, 1, Len(t)) = t

\* String.prototype.substring(from), from counted from 0
SubstringFrom(s, from) == SubSeq(s, from + 1, Len(s))

\* String.prototype.substring(0, n)
SubstringTo(s, n) == SubSeq(s, 1, Min(n, Len(s)))

\* `## ${heading}`
HeadingLine(heading) == <<"## ">> \o heading

(***************************************************************************)
(* Part II : what the model and the search backend may answer              *)
(***************************************************************************)
\* headings the outline model may produce
RawHeadings ==
    { <<"A">>,
      <<"B", " ", "(requires_search)">>,
      <<"C">>,
      <<"(requires_search)">> }

\* replies of the outline model that parse as a JSON array of strings
OutlineReplies ==
    UNION { [1..n -> RawHeadings \cup {<<" ">>}] : n \in 0..MaxOutline }

\* the same with strings the prompt does not ask for: the marker twice, the
\* empty string
OddHeadings ==
    { <<"A">>,
      <<"B", " ", "(requires_search)">>,
      <<"C">>,
      <<"(requires_search)">>,
      <<"D", "(requires_search)", "(requires_search)">>,
      <<" ">>,
      <<>> }

OddOutlineReplies ==
    UNION { [1..n -> OddHeadings] : n \in 0..MaxOutline }

\* outlines of plain headings, one with the marker
BriefOutlineReplies ==
    UNION { [1..n -> {<<"A">>, <<"B", " ", "(requires_search)">>}] :
              n \in 0..MaxOutline }

\* outlines whose entries need no search
UnmarkedOutlineReplies ==
    UNION { [1..n -> {<<"A">>, <<"C">>}] : n \in 0..MaxOutline }

\* bodies the content model may produce
Contents ==
    { <<" ", "x", "\n">>,
      <<"## ", "A", "\n", "x">> }

\* one body
PlainContents == { <<" ", "x", "\n">> }

\* bodies that begin with the heading line "## A", once or twice, or with a
\* longer heading line
EchoContents ==
    { <<"## ", "A", "\n", "x">>,
      <<"## ", "A", "\n", "## ", "A", "\n", "x">>,
      <<"## ", "A", "B", "\n", "x">>,
      <<"x", "\n", "## ", "A">> }

\* bodies shorter than, as long as and longer than the 100 characters quoted
\* to the next content call
LongContents ==
    { <<" ", "x", "\n">>,
      [k \in 1..100 |-> "y"],
      [k \in 1..101 |-> IF k <= 100 THEN "z" ELSE "w"] }

(***************************************************************************)
(* Part II : the search backend, POST /fetch-from-internet                 *)
(***************************************************************************)
\* A page of the primary search: the request or the parse raised (error),
\* or the page's result divs, each either a result id (title, link and snippet
\* all present) or 0 (one of the three tags missing).
Page(divs) == [error |-> FALSE, items |-> divs]
Unreachable == [error |-> TRUE, items |-> <<>>]

PrimaryPages ==
    { Unreachable, Page(<<>>), Page(<<0>>), Page([k \in 1..MaxRaw |-> k]) }

\* The answer of the fallback provider: an error, or its organic results.
SerperAnswers ==
    { Unreachable, Page(<<>>), Page([k \in 1..MaxRaw |-> k]) }

\* how a wrapped call of get_summary_from_gemini can end
SummaryResponses == {"200", "429", "500"}

\* results[:8]
SearchCap == 8

RECURSIVE Complete(_)
\* the results of `divs` that have title, link and snippet
Complete(divs) ==
    IF divs = <<>> THEN <<>>
    ELSE (IF Head(divs) # 0 THEN <<Head(divs)>> ELSE <<>>) \o Complete(Tail(divs))

\* for result in results[:8]: if title_tag and link_tag and snippet_tag: append
ScrapeResults(divs) == Complete(SubSeq(divs, 1, Min(SearchCap, Len(divs))))

\* The primary phase raises when the request raised or when the page has no
\* result div (ValueError); otherwise search_results is what it extracted.
PrimaryFailed(page) == page.error \/ page.items = <<>>

Answer(code, srcs, text) == [status |-> code, sources |-> srcs, summaryText |-> text]

\* item["title"] and item["link"] of the result with id `item`
Title(item) == [of |-> item, tag |-> "title"]
Link(item) == [of |-> item, tag |-> "link"]

\* {"uri": item["link"], "title": item["title"]}
Source(item) == [uri |-> Link(item), title |-> Title(item)]

\* variant: the comprehension walks the list backwards
SourcesReversed(results) ==
    [k \in 1..Len(results) |-> Source(results[Len(results) + 1 - k])]

\* sources = [{"uri": ..., "title": ...} for item in search_results]
Sources(results) == [k \in 1..Len(results) |-> Source(results[k])]

\* fetch_from_internet: the HTTP status and body it answers with.
\*   page      the primary page
\*   serperKey SERPER_API_KEY is set
\*   serper    the fallback provider's answer
\*   summary   how the wrapped get_summary_from_gemini call ends
fetch_from_internet(page, serperKey, serper, summary) ==
    IF PrimaryFailed(page) /\ ~serperKey THEN Answer(501, <<>>, "none")
    ELSE IF PrimaryFailed(page) /\ serper.error THEN Answer(500, <<>>, "none")
    ELSE LET collected ==
                 IF PrimaryFailed(page) THEN serper.items ELSE ScrapeResults(page.items)
         IN  IF collected = <<>>
             THEN Answer(200, <<>>, "No relevant information could be found")
             ELSE IF summary = "200" THEN Answer(200, Sources(collected), "summary")
             ELSE Answer(500, <<>>, "none")

\* fetch(...) itself rejects: the backend gave no answer
NoAnswer == Answer(0, <<>>, "none")

\* every answer the backend can give to a search request
FetchAnswers ==
    { fetch_from_internet(page, key, serper, summary) :
        page \in PrimaryPages, key \in BOOLEAN,
        serper \in SerperAnswers, summary \in SummaryResponses }

Undefined == [defined |-> FALSE, list |-> <<>>]
Defined(list) == [defined |-> TRUE, list |-> list]

\* cleanedContent.substring(0, 100)
ContextChars == 100

\* "This is the first section of the tutorial."
FirstSectionContext == [first |-> TRUE, heading |-> <<>>, start |-> <<>>, more |-> FALSE]

(***************************************************************************)
(* Part IV : the sections field of the form                                *)
(***************************************************************************)
\* what e.target.value of the number field may hold: nothing, and numerals
\* below, inside and above the limits, one with a fraction
TypedTexts ==
    { <<>>, <<"0">>, <<"-", "2">>, <<"2">>, <<"3">>, <<"7">>,
      <<"1", "0">>, <<"1", "1">>, <<"3", ".", "7">> }

DecimalDigits == <<"0", "1", "2", "3", "4", "5", "6", "7", "8", "9">>

IsDigit(c) == \E d \in 1..Len(DecimalDigits) : DecimalDigits[d] = c

DigitValue(c) == (CHOOSE d \in 1..Len(DecimalDigits) : DecimalDigits[d] = c) - 1

RECURSIVE LeadingDigits(_)
\* the longest prefix of decimal digits
LeadingDigits(text) ==
    IF text # <<>> /\ IsDigit(Head(text))
    THEN <<Head(text)>> \o LeadingDigits(Tail(text))
    ELSE <<>>

RECURSIVE DecimalValue(_)
DecimalValue(digits) ==
    IF digits = <<>> THEN 0
    ELSE 10 * DecimalValue(SubSeq(digits, 1, Len(digits) - 1))
             + DigitValue(digits[Len(digits)])

NaN == [nan |-> TRUE, value |-> 0]
Number(n) == [nan |-> FALSE, value |-> n]

\* parseInt(text, 10): an optional sign, then the leading decimal digits; NaN
\* when there is no digit
ParseInt(text) ==
    LET negative == text # <<>> /\ Head(text) = "-"
        digits == LeadingDigits(IF negative THEN Tail(text) ELSE text)
    IN  IF digits = <<>> THEN NaN
        ELSE Number(IF negative THEN 0 - DecimalValue(digits) ELSE DecimalValue(digits))

\* useState<number>(5)
InitForm ==
    /\ numSections = 5
    /\ validNumSections = 0
    /\ topic = <<>>

InitRun ==
    /\ outlineHeadings = <<>>
    /\ completedTutorialParts = <<>>
    /\ isLoading = FALSE
    /\ error = "null"
    /\ isTutorialComplete = FALSE
    /\ currentAgentActivity = "null"
    /\ runPc = "idle"
    /\ processingPlan = <<>>
    /\ planIndex = 0
    /\ previousSectionContext = FirstSectionContext
    /\ internetSearchContext = "undefined"
    /\ sourcesForSection = Undefined
    /\ agentCalls = {}
    /\ searchFailed = {}
    /\ contentFailedAt = 0
    /\ outline = Undefined

(***************************************************************************)
(* Part II : startFullGenerationProcess                                    *)
(***************************************************************************)
\* agent1GenerateOutline: the reply must be an array whose items are strings
\* with item.trim() !== '', and must not be empty.
Agent1Accepts(reply) ==
    /\ \A k \in 1..Len(reply) : Trim(reply[k]) # <<>>
    /\ Len(reply) # 0

\* The two builds of services/geminiService.ts: the direct call of the model,
\* and the call of the backend's /generate-outline.
ServiceVariants == {"direct", "backend"}

RECURSIVE FilterNonEmpty(_)
\* outline.filter(heading => heading.length > 0)
FilterNonEmpty(list) ==
    IF list = <<>> THEN <<>>
    ELSE (IF Len(Head(list)) > 0 THEN <<Head(list)>> ELSE <<>>)
         \o FilterNonEmpty(Tail(list))

\* agent1GenerateOutline for a reply that is an array of strings: it throws
\* (ok is FALSE) or returns the filtered array.  The direct build checks every
\* item with item.trim() !== '' and the length; the backend build checks only
\* that every item is a string.
agent1GenerateOutline(variant, reply) ==
    IF variant = "direct" /\ ~Agent1Accepts(reply)
    THEN [ok |-> FALSE, headings |-> <<>>]
    ELSE [ok |-> TRUE, headings |-> FilterNonEmpty(reply)]

\* rawOutlineWithMarkers.forEach(rawHeading => ...)
PlanEntry(rawHeading) ==
    [raw |-> rawHeading,
     cleaned |-> Trim(ReplaceFirst(rawHeading, MARKER, <<>>)),
     requiresSearch |-> Includes(rawHeading, MARKER)]

MakePlan(rawOutline) == [k \in 1..Len(rawOutline) |-> PlanEntry(rawOutline[k])]

CleanedHeadings(plan) == [k \in 1..Len(plan) |-> plan[k].cleaned]

\* rawContent.trim().startsWith(`## ${heading}`)
\*   ? rawContent.trim().substring(`## ${heading}`.length).trim() : rawContent.trim()
CleanContent(rawContent, heading) ==
    IF StartsWith(Trim(rawContent), HeadingLine(heading))
    THEN Trim(SubstringFrom(Trim(rawContent), Len(HeadingLine(heading))))
    ELSE Trim(rawContent)

\* `## ${heading}\n\n${cleanedContent}\n\n`
FormattedSection(heading, cleanedContent) ==
    HeadingLine(heading) \o <<"\n", "\n">> \o cleanedContent \o <<"\n", "\n">>

NewPart(heading, cleanedContent, sources) ==
    [heading |-> heading,
     fullMarkdownContent |-> FormattedSection(heading, cleanedContent),
     sources |-> sources]

\* variant: the new part is put in front of the others
AccumulateInFront(parts, part) == <<part>> \o parts

\* variant: the new part takes the place of the last one
AccumulateOverLast(parts, part) ==
    IF parts = <<>> THEN <<part>> ELSE [parts EXCEPT ![Len(parts)] = part]

\* accumulatedParts = [...accumulatedParts, newPart]
Accumulate(parts, part) == Append(parts, part)

\* variant: the whole body is quoted
NextContextWhole(heading, cleanedContent) ==
    [first |-> FALSE, heading |-> heading, start |-> cleanedContent, more |-> FALSE]

\* `The previous section was "${heading}" with content starting: "..."`
NextContext(heading, cleanedContent) ==
    [first |-> FALSE, heading |-> heading,
     start |-> SubstringTo(cleanedContent, ContextChars),
     more |-> Len(cleanedContent) > ContextChars]

\* variant: handleSubmit does not look at isLoading
MaySubmitWhileLoading == TRUE

\* Math.max(lower, Math.min(upper, n || lower))
Max(a, b) == IF a >= b THEN a ELSE b

\* variant: the lower limit is not applied
ValidNumSectionsNoFloor(n) == Min(10, IF n = 0 THEN 3 ELSE n)

\* const validNumSections = Math.max(3, Math.min(10, numSections || 3))
ValidNumSections(n) == Max(3, Min(10, IF n = 0 THEN 3 ELSE n))

\* const clampedValue = Math.max(3, Math.min(10, numSections || 3))
ClampedValue(n) == Max(3, Min(10, IF n = 0 THEN 3 ELSE n))

\* topics startFullGenerationProcess may be called with: empty, of white
\* space only, and one with text
Topics == { <<>>, <<" ">>, <<" ", "\n">>, <<" ", "T", " ">> }

\* variant: only the empty string is refused
IsBlankOnlyEmpty(currentTopic) == currentTopic = <<>>

\* !currentTopic.trim()
IsBlank(currentTopic) == Trim(currentTopic) = <<>>

\* handleNumSectionsChange: setNumSections(isNaN(value) ? 0 : value); the field
\* is disabled while loading
HandleNumSectionsChange ==
    /\ ~isLoading
    /\ \E text \in TypedTexts :
          LET value == ParseInt(text)
          IN  numSections' = IF value.nan THEN 0 ELSE value.value
    /\ UNCHANGED <<validNumSections, topic>>
    /\ UNCHANGED <<keyVars, runVars, searchVars>>

\* handleNumSectionsBlur: setNumSections(clampedValue)
HandleNumSectionsBlur ==
    /\ ~isLoading
    /\ numSections' = ClampedValue(numSections)
    /\ UNCHANGED <<validNumSections, topic>>
    /\ UNCHANGED <<keyVars, runVars, searchVars>>

\* {isTutorialComplete && completedTutorialParts.length > 0 && !error && (...)}:
\* the "Tutorial Ready!" banner is rendered
TutorialReady ==
    isTutorialComplete /\ Len(completedTutorialParts) > 0 /\ error = "null"

\* handleSubmit submits only if (topic.trim() && !isLoading)
MaySubmit == ~isLoading

\* The top of the loop body for entry k (counted from 1): an entry marked
\* requiresSearch calls agent 4 first, any other calls agent 2 at once.
EnterSection(k, plan) ==
    /\ planIndex' = k - 1
    /\ internetSearchContext' = "undefined"
    /\ sourcesForSection' = Undefined
    /\ IF plan[k].requiresSearch
       THEN /\ currentAgentActivity' = "Agent 4"
            /\ agentCalls' = agentCalls \cup {<<"agent4", k>>}
            /\ runPc' = "agent4"
       ELSE /\ currentAgentActivity' = "Agent 2"
            /\ agentCalls' = agentCalls \cup {<<"agent2", k>>}
            /\ runPc' = "agent2"

\* startFullGenerationProcess with a blank topic: the validation error only.
RejectBlankTopic ==
    /\ MaySubmit
    /\ \E currentTopic \in Topics : IsBlank(currentTopic)
    /\ error' = "Please enter a tutorial topic."
    /\ UNCHANGED <<outlineHeadings, completedTutorialParts, isLoading,
                   isTutorialComplete, currentAgentActivity, runPc, processingPlan,
                   planIndex, previousSectionContext, internetSearchContext,
                   sourcesForSection, agentCalls, searchFailed, contentFailedAt>>
    /\ UNCHANGED <<service, outline>>
    /\ UNCHANGED keyVars
    /\ UNCHANGED searchVars
    /\ UNCHANGED formVars

\* variant: the reset leaves isTutorialComplete as it is
StartRunKeepsComplete ==
    /\ MaySubmit
    /\ outlineHeadings' = <<>>
    /\ completedTutorialParts' = <<>>
    /\ error' = "null"
    /\ isLoading' = TRUE
    /\ currentAgentActivity' = "Agent 1"
    /\ runPc' = "agent1"
    /\ processingPlan' = <<>>
    /\ planIndex' = 0
    /\ previousSectionContext' = FirstSectionContext
    /\ internetSearchContext' = "undefined"
    /\ sourcesForSection' = Undefined
    /\ agentCalls' = {<<"agent1", 0>>}
    /\ searchFailed' = {}
    /\ contentFailedAt' = 0
    /\ outline' = Undefined
    /\ validNumSections' = ValidNumSections(numSections)
    /\ \E currentTopic \in Topics :
          /\ ~IsBlank(currentTopic)
          /\ topic' = currentTopic
    /\ UNCHANGED numSections
    /\ UNCHANGED <<service, isTutorialComplete>>
    /\ UNCHANGED keyVars
    /\ UNCHANGED searchVars

\* startFullGenerationProcess with a topic: the state is reset and agent 1 is called.
StartRun ==
    /\ MaySubmit
    /\ outlineHeadings' = <<>>
    /\ completedTutorialParts' = <<>>
    /\ error' = "null"
    /\ isLoading' = TRUE
    /\ isTutorialComplete' = FALSE
    /\ currentAgentActivity' = "Agent 1"
    /\ runPc' = "agent1"
    /\ processingPlan' = <<>>
    /\ planIndex' = 0
    /\ previousSectionContext' = FirstSectionContext
    /\ internetSearchContext' = "undefined"
    /\ sourcesForSection' = Undefined
    /\ agentCalls' = {<<"agent1", 0>>}
    /\ searchFailed' = {}
    /\ contentFailedAt' = 0
    /\ outline' = Undefined
    /\ validNumSections' = ValidNumSections(numSections)
    /\ \E currentTopic \in Topics :
          /\ ~IsBlank(currentTopic)
          /\ topic' = currentTopic
    /\ UNCHANGED numSections
    /\ UNCHANGED service
    /\ UNCHANGED keyVars
    /\ UNCHANGED searchVars

\* variant: the error is recorded but the finally block is missing
FailKeepsLoading(message) ==
    /\ error' = message
    /\ UNCHANGED <<isLoading, currentAgentActivity>>
    /\ runPc' = "done"

\* variant: after the catch and the finally the process starts over
FailRetries(message) ==
    /\ error' = message
    /\ isLoading' = FALSE
    /\ currentAgentActivity' = "null"
    /\ runPc' = "agent1"

\* catch (e) { setError(message) } finally { setIsLoading(false); setCurrentAgentActivity(null) }
Fail(message) ==
    /\ error' = message
    /\ isLoading' = FALSE
    /\ currentAgentActivity' = "null"
    /\ runPc' = "done"

\* await agent1GenerateOutline(...) throws: the request failed, the reply is no
\* JSON array of strings, or the outline is rejected.
Agent1Throws ==
    /\ runPc = "agent1"
    /\ Fail("Agent 1 (Outliner)")
    /\ UNCHANGED <<outlineHeadings, completedTutorialParts, isTutorialComplete,
                   processingPlan, planIndex, previousSectionContext,
                   internetSearchContext, sourcesForSection, agentCalls,
                   searchFailed, contentFailedAt>>
    /\ UNCHANGED <<service, outline>>
    /\ UNCHANGED keyVars
    /\ UNCHANGED searchVars
    /\ UNCHANGED formVars

\* await agent1GenerateOutline(...) gets an array of strings from the model.
Agent1RepliesFrom(replies) ==
    /\ runPc = "agent1"
    /\ \E reply \in replies :
          LET rawOutlineWithMarkers == agent1GenerateOutline(service, reply) IN
          /\ outline' = Defined(reply)
          /\ IF rawOutlineWithMarkers.ok /\ Len(rawOutlineWithMarkers.headings) # 0
             THEN LET plan == MakePlan(rawOutlineWithMarkers.headings)
                  IN  /\ processingPlan' = plan
                      /\ outlineHeadings' = CleanedHeadings(plan)
                      /\ previousSectionContext' = FirstSectionContext
                      /\ EnterSection(1, plan)
                      /\ UNCHANGED <<completedTutorialParts, isLoading, error,
                                     isTutorialComplete, searchFailed,
                                     contentFailedAt>>
             ELSE /\ Fail("Agent 1 (Outliner)")
                  /\ UNCHANGED <<outlineHeadings, completedTutorialParts,
                                 isTutorialComplete, processingPlan, planIndex,
                                 previousSectionContext, internetSearchContext,
                                 sourcesForSection, agentCalls, searchFailed,
                                 contentFailedAt>>
    /\ UNCHANGED service
    /\ UNCHANGED keyVars
    /\ UNCHANGED searchVars
    /\ UNCHANGED formVars

Agent1Replies == Agent1RepliesFrom(OutlineReplies)

Agent1RepliesOddly == Agent1RepliesFrom(OddOutlineReplies)

Agent1RepliesBriefly == Agent1RepliesFrom(BriefOutlineReplies)

Agent1RepliesUnmarked == Agent1RepliesFrom(UnmarkedOutlineReplies)

\* agent2GenerateContent(currentTopic, heading, cleanedHeadings,
\*     previousSectionContext, selectedAudience, internetSearchContext): what
\* the pending content call was given.
Agent2Arguments ==
    [heading |-> processingPlan[planIndex + 1].cleaned,
     cleanedHeadings |-> CleanedHeadings(processingPlan),
     previousSectionContext |-> previousSectionContext,
     internetSearchContext |-> internetSearchContext]

\* Agent 2 is called after the search step of the entry.
CallAgent2 ==
    /\ currentAgentActivity' = "Agent 2"
    /\ agentCalls' = agentCalls \cup {<<"agent2", planIndex + 1>>}
    /\ runPc' = "agent2"

\* await agent4FetchFromInternet(...) returns: the backend answered 200.
Agent4Returns ==
    /\ runPc = "agent4"
    /\ \E answer \in FetchAnswers :
          /\ answer.status = 200
          /\ internetSearchContext' = answer.summaryText
          /\ sourcesForSection' = Defined(answer.sources)
    /\ CallAgent2
    /\ UNCHANGED <<outlineHeadings, completedTutorialParts, isLoading, error,
                   isTutorialComplete, processingPlan, planIndex,
                   previousSectionContext, searchFailed, contentFailedAt>>
    /\ outline' = Undefined
    /\ UNCHANGED service
    /\ UNCHANGED keyVars
    /\ UNCHANGED searchVars
    /\ UNCHANGED formVars

\* variant: the search call is not wrapped in its own try/catch, so its
\* failure reaches the outer catch and ends the run
Agent4ThrowsAborts ==
    /\ runPc = "agent4"
    /\ \E answer \in FetchAnswers \cup {NoAnswer} :
          /\ answer.status # 200
          /\ searchFailed' = searchFailed \cup {<<planIndex + 1, answer.status>>}
    /\ Fail("Agent 4 (Internet Researcher)")
    /\ UNCHANGED <<outlineHeadings, completedTutorialParts, isTutorialComplete,
                   processingPlan, planIndex, previousSectionContext,
                   internetSearchContext, sourcesForSection, agentCalls,
                   contentFailedAt>>
    /\ outline' = Undefined
    /\ UNCHANGED service
    /\ UNCHANGED keyVars
    /\ UNCHANGED searchVars
    /\ UNCHANGED formVars

\* await agent4FetchFromInternet(...) throws (the backend answered with an
\* error status, or the request failed): catch (e) { addLog(...) }.
Agent4Throws ==
    /\ runPc = "agent4"
    /\ \E answer \in FetchAnswers \cup {NoAnswer} :
          /\ answer.status # 200
          /\ searchFailed' = searchFailed \cup {<<planIndex + 1, answer.status>>}
    /\ CallAgent2
    /\ UNCHANGED <<outlineHeadings, completedTutorialParts, isLoading, error,
                   isTutorialComplete, processingPlan, planIndex,
                   previousSectionContext, internetSearchContext,
                   sourcesForSection, contentFailedAt>>
    /\ outline' = Undefined
    /\ UNCHANGED service
    /\ UNCHANGED keyVars
    /\ UNCHANGED searchVars
    /\ UNCHANGED formVars

\* await agent2GenerateContent(...) returns: agent 3 formats and stores the
\* section; then the next entry, or the end of the loop.
Agent2ReturnsFrom(contents) ==
    /\ runPc = "agent2"
    /\ \E rawContent \in contents :
          LET heading == processingPlan[planIndex + 1].cleaned
              cleanedContent == CleanContent(rawContent, heading)
          IN  /\ completedTutorialParts' =
                     Accumulate(completedTutorialParts,
                                NewPart(heading, cleanedContent, sourcesForSection))
              /\ previousSectionContext' = NextContext(heading, cleanedContent)
    /\ IF planIndex + 1 < Len(processingPlan)
       THEN /\ EnterSection(planIndex + 2, processingPlan)
            /\ UNCHANGED <<isTutorialComplete, isLoading>>
       ELSE /\ isTutorialComplete' = TRUE
            /\ isLoading' = FALSE
            /\ currentAgentActivity' = "null"
            /\ runPc' = "done"
            /\ UNCHANGED <<planIndex, internetSearchContext, sourcesForSection,
                           agentCalls>>
    /\ UNCHANGED <<outlineHeadings, error, processingPlan, searchFailed,
                   contentFailedAt>>
    /\ outline' = Undefined
    /\ UNCHANGED service
    /\ UNCHANGED keyVars
    /\ UNCHANGED searchVars
    /\ UNCHANGED formVars

Agent2Returns == Agent2ReturnsFrom(Contents)

Agent2ReturnsEcho == Agent2ReturnsFrom(EchoContents)

Agent2ReturnsPlain == Agent2ReturnsFrom(PlainContents)

Agent2ReturnsLong == Agent2ReturnsFrom(LongContents)

\* await agent2GenerateContent(...) throws: the catch and the finally.
Agent2Throws ==
    /\ runPc = "agent2"
    /\ Fail("Agent 2 (Content Writer)")
    /\ contentFailedAt' = planIndex + 1
    /\ UNCHANGED <<outlineHeadings, completedTutorialParts, isTutorialComplete,
                   processingPlan, planIndex, previousSectionContext,
                   internetSearchContext, sourcesForSection, agentCalls,
                   searchFailed>>
    /\ outline' = Undefined
    /\ UNCHANGED service
    /\ UNCHANGED keyVars
    /\ UNCHANGED searchVars
    /\ UNCHANGED formVars

(***************************************************************************)
(* Part III : the handler of POST /fetch-from-internet, step by step       *)
(***************************************************************************)
\* pages the primary search may give: unreachable, n complete results, or
\* result divs that lack a title, a link or a snippet
SearchPages ==
    {Unreachable}
    \cup { Page([k \in 1..n |-> k]) : n \in 0..MaxRaw }
    \cup { Page(<<0>>), Page(<<0, 1>>),
           Page([k \in 1..MaxRaw |-> IF k <= SearchCap THEN 0 ELSE k]) }

\* answers of the fallback provider: an error, or n organic results
SerperReplies ==
    {Unreachable} \cup { Page([k \in 1..n |-> k]) : n \in 0..MaxRaw }

\* {"summaryText": "No relevant information could be found for this topic.", "sources": []}
EmptyAnswer == Answer(200, <<>>, "No relevant information could be found")

InitResolver(keySettings) ==
    /\ SERPER_API_KEY \in keySettings
    /\ searchPc = "idle"
    /\ primaryPage = Page(<<>>)
    /\ serperReply = Page(<<>>)
    /\ search_results = <<>>
    /\ searchResponse = NoAnswer
    /\ fallbackEntered = FALSE
    /\ serperCalls = 0
    /\ summaryCalls = 0

\* variant: the summary is asked for whatever the list holds
ResolveAlwaysSummarises(results) ==
    /\ search_results' = results
    /\ summaryCalls' = 1
    /\ searchPc' = "summarise"
    /\ searchResponse' = NoAnswer

\* if not search_results: return the empty result; otherwise call
\* get_summary_from_gemini
Resolve(results) ==
    /\ search_results' = results
    /\ IF results = <<>>
       THEN /\ searchResponse' = EmptyAnswer
            /\ searchPc' = "done"
            /\ summaryCalls' = 0
       ELSE /\ searchResponse' = NoAnswer
            /\ searchPc' = "summarise"
            /\ summaryCalls' = 1

\* if not SERPER_API_KEY: raise HTTPException(status_code=501, ...)
NoFallbackKey ==
    /\ searchResponse' = Answer(501, <<>>, "none")
    /\ searchPc' = "done"
    /\ serperCalls' = 0

\* A request arrives and the primary phase runs.  When it raises, the except
\* branch answers 501 without a fallback key and asks the provider otherwise.
Scrape ==
    /\ searchPc \in {"idle", "done"}
    /\ \E primary \in SearchPages :
          /\ primaryPage' = primary
          /\ serperReply' = Page(<<>>)
          /\ IF PrimaryFailed(primary)
             THEN /\ fallbackEntered' = TRUE
                  /\ search_results' = <<>>
                  /\ summaryCalls' = 0
                  /\ IF ~SERPER_API_KEY
                     THEN NoFallbackKey
                     ELSE /\ searchResponse' = NoAnswer
                          /\ searchPc' = "fallback"
                          /\ serperCalls' = 1
             ELSE /\ fallbackEntered' = FALSE
                  /\ serperCalls' = 0
                  /\ Resolve(ScrapeResults(primary.items))
    /\ UNCHANGED SERPER_API_KEY
    /\ UNCHANGED <<keyVars, runVars, formVars>>

\* The fallback provider answers: an error gives 500, otherwise every
\* organic result is appended to search_results.
SerperReplied ==
    /\ searchPc = "fallback"
    /\ \E reply \in SerperReplies :
          /\ serperReply' = reply
          /\ IF reply.error
             THEN /\ searchResponse' = Answer(500, <<>>, "none")
                  /\ searchPc' = "done"
                  /\ UNCHANGED <<search_results, summaryCalls>>
             ELSE Resolve(search_results \o reply.items)
    /\ UNCHANGED <<SERPER_API_KEY, primaryPage, fallbackEntered, serperCalls>>
    /\ UNCHANGED <<keyVars, runVars, formVars>>

\* The wrapped get_summary_from_gemini call ends: with the text, or with an
\* HTTPException that the handler's except turns into 500.
SummaryEnds ==
    /\ searchPc = "summarise"
    /\ \E summary \in SummaryResponses :
          searchResponse' =
              IF summary = "200" THEN Answer(200, Sources(search_results), "summary")
              ELSE Answer(500, <<>>, "none")
    /\ searchPc' = "done"
    /\ UNCHANGED <<SERPER_API_KEY, primaryPage, serperReply, search_results,
                   fallbackEntered, serperCalls, summaryCalls>>
    /\ UNCHANGED <<keyVars, runVars, formVars>>

\* summary_text = await get_summary_from_gemini(...): the handler's request
\* (request 1 of the wrapper) enters the wrapper around the summary function.
CallSummary ==
    /\ searchPc = "summarise"
    /\ pc[1] \in {"idle", "done"}
    /\ func' = [func EXCEPT ![1] = "get_summary_from_gemini"]
    /\ pc' = [pc EXCEPT ![1] = "read"]
    /\ i' = [i EXCEPT ![1] = 0]
    /\ modelOutcome' = [modelOutcome EXCEPT ![1] = "none"]
    /\ response' = [response EXCEPT ![1] = "none"]
    /\ attempts' = [attempts EXCEPT ![1] = 0]
    /\ rejected' = [rejected EXCEPT ![1] = {}]
    /\ successes' = [successes EXCEPT ![1] = 0]
    /\ searchPc' = "summary"
    /\ UNCHANGED <<GEMINI_API_KEYS, current_key_index, key_to_use>>
    /\ UNCHANGED <<SERPER_API_KEY, primaryPage, serperReply, search_results,
                   searchResponse, fallbackEntered, serperCalls, summaryCalls>>
    /\ UNCHANGED <<runVars, formVars>>

\* The wrapper is left: with the text, and the handler answers 200 with the
\* sources; or with the HTTPException the wrapper raised (429 or 500), which
\* the handler's `except Exception` catches and answers with its own 500.
SummaryReturns ==
    /\ searchPc = "summary"
    /\ pc[1] = "done"
    /\ searchResponse' =
           IF response[1] = "200" THEN Answer(200, Sources(search_results), "summary")
           ELSE Answer(500, <<>>, "none")
    /\ searchPc' = "done"
    /\ UNCHANGED <<SERPER_API_KEY, primaryPage, serperReply, search_results,
                   fallbackEntered, serperCalls, summaryCalls>>
    /\ UNCHANGED <<keyVars, runVars, formVars>>

(***************************************************************************)
(* Specifications                                                          *)
(***************************************************************************)
\* Requests that overlap in the wrapper.
NextKeys ==
    \E p \in Requests :
        \/ Call(p)
        \/ ReadKey(p)
        \/ Success(p)
        \/ QuotaRejected(p)
        \/ OtherError(p)

InitKeys ==
    /\ InitPool(MaxSharedKeys)
    /\ InitRun
    /\ service = "backend"
    /\ InitResolver({FALSE})
    /\ InitForm

SpecKeys == InitKeys /\ [][NextKeys]_vars

\* One request at a time.
NextAlone ==
    \/ Call(1)
    \/ ReadKey(1)
    \/ Success(1)
    \/ QuotaRejected(1)
    \/ OtherError(1)

InitAlone ==
    /\ InitPool(MaxKeys)
    /\ InitRun
    /\ service = "backend"
    /\ InitResolver({FALSE})
    /\ InitForm

SpecAlone == InitAlone /\ [][NextAlone]_vars

\* The page: one run of the pipeline after another.
NextRun ==
    \/ RejectBlankTopic
    \/ StartRun
    \/ Agent1Throws
    \/ Agent1Replies
    \/ Agent4Returns
    \/ Agent4Throws
    \/ Agent2Returns
    \/ Agent2Throws

\* the page's requests do not show in the page's state: the pool stays as it was
InitPage ==
    /\ InitPool(1)
    /\ InitRun
    /\ service = "direct"
    /\ InitResolver({FALSE})
    /\ InitForm

SpecRun == InitPage /\ [][NextRun]_vars

\* The page in either build of the service, with outlines the prompt does not
\* ask for.
NextOutline ==
    \/ StartRun
    \/ Agent1Throws
    \/ Agent1RepliesOddly
    \/ Agent4Returns
    \/ Agent4Throws
    \/ Agent2ReturnsPlain
    \/ Agent2Throws

InitEitherBuild ==
    /\ InitPool(1)
    /\ InitRun
    /\ service \in ServiceVariants
    /\ InitResolver({FALSE})
    /\ InitForm

SpecOutline == InitEitherBuild /\ [][NextOutline]_vars

\* The page with bodies that echo the heading.
NextEcho ==
    \/ StartRun
    \/ Agent1Throws
    \/ Agent1RepliesUnmarked
    \/ Agent2ReturnsEcho
    \/ Agent2Throws

InitEcho ==
    /\ InitPool(1)
    /\ InitRun
    /\ service \in ServiceVariants
    /\ InitResolver({FALSE})
    /\ InitForm

SpecEcho == InitEcho /\ [][NextEcho]_vars

\* The page with bodies around the length quoted to the next content call.
NextFlow ==
    \/ StartRun
    \/ Agent1Throws
    \/ Agent1RepliesUnmarked
    \/ Agent2ReturnsLong
    \/ Agent2Throws

InitFlow ==
    /\ InitPool(1)
    /\ InitRun
    /\ service = "direct"
    /\ InitResolver({FALSE})
    /\ InitForm

SpecFlow == InitFlow /\ [][NextFlow]_vars

\* The page with its sections field in use.
NextForm ==
    \/ HandleNumSectionsChange
    \/ HandleNumSectionsBlur
    \/ StartRun
    \/ Agent1Throws
    \/ Agent1RepliesUnmarked
    \/ Agent2ReturnsPlain
    \/ Agent2Throws

InitFormPage ==
    /\ InitPool(1)
    /\ InitRun
    /\ service \in ServiceVariants
    /\ InitResolver({FALSE})
    /\ InitForm

SpecForm == InitFormPage /\ [][NextForm]_vars

\* The page when every call of an agent comes back: the promise of each await
\* settles, so the step after it is taken.
NextSettle ==
    \/ RejectBlankTopic
    \/ StartRun
    \/ Agent1Throws
    \/ Agent1RepliesBriefly
    \/ Agent4Returns
    \/ Agent4Throws
    \/ Agent2ReturnsPlain
    \/ Agent2Throws

InitSettle ==
    /\ InitPool(1)
    /\ InitRun
    /\ service \in ServiceVariants
    /\ InitResolver({FALSE})
    /\ InitForm

SpecSettle ==
    /\ InitSettle
    /\ [][NextSettle]_vars
    /\ WF_vars(Agent1Throws \/ Agent1RepliesBriefly)
    /\ WF_vars(Agent4Returns \/ Agent4Throws)
    /\ WF_vars(Agent2ReturnsPlain \/ Agent2Throws)

\* The search backend: one request after another.
NextSearch ==
    \/ Scrape
    \/ SerperReplied
    \/ SummaryEnds

InitSearch ==
    /\ InitPool(1)
    /\ InitRun
    /\ service = "backend"
    /\ InitResolver(BOOLEAN)
    /\ InitForm

SpecSearch == InitSearch /\ [][NextSearch]_vars

\* The search backend with the summary call run through the wrapper.
NextSummary ==
    \/ Scrape
    \/ SerperReplied
    \/ CallSummary
    \/ ReadKey(1)
    \/ Success(1)
    \/ QuotaRejected(1)
    \/ OtherError(1)
    \/ SummaryReturns

InitSummary ==
    /\ InitPool(MaxSharedKeys)
    /\ InitRun
    /\ service = "backend"
    /\ InitResolver(BOOLEAN)
    /\ InitForm

SpecSummary == InitSummary /\ [][NextSummary]_vars

(***************************************************************************)
(* Properties of the key pool and of the wrapper                           *)
(***************************************************************************)
AllKeys == 0..(NumKeys - 1)

\* C1. One wrapper call running alone whose every attempt is rejected for
\* quota makes exactly N attempts, one with each of the N credentials, and
\* then answers 429: as long as every attempt so far was rejected the
\* attempts used that many different credentials and fewer than N were made;
\* the call answers 429 exactly when all N credentials were rejected.
C1_AllRejectedTriesEachKeyOnce ==
    /\ pc[1] = "read" =>
          /\ Cardinality(rejected[1]) = attempts[1]
          /\ attempts[1] < NumKeys
    /\ response[1] = "429" =>
          /\ attempts[1] = NumKeys
          /\ rejected[1] = AllKeys
    /\ rejected[1] = AllKeys => response[1] = "429"

C1_Witness ==
    /\ NumKeys >= 3
    /\ response[1] = "429"
    /\ attempts[1] = NumKeys
    /\ func[1] = "get_summary_from_gemini"

\* C2. A quota rejection of the model call inside a decorated endpoint, on an
\* iteration that is not the last, makes the wrapper go on to the next
\* iteration (the cursor advanced, the endpoint about to be run again).
C2_EndpointQuotaRotates ==
    \A p \in Requests :
        ( /\ func[p] \in GuardedEndpoints
          /\ modelOutcome[p] = "ResourceExhausted"
          /\ attempts[p] < NumKeys )
        => ( pc[p] = "read" /\ i[p] = attempts[p] /\ response[p] = "none" )

\* C3. A call answers 429 only if it attempted every credential of the pool
\* itself and saw each rejected for quota.
C3_ExhaustedOnlyAfterAllKeys ==
    \A p \in Requests : response[p] = "429" => rejected[p] = AllKeys

\* C4. Running alone, a successful attempt leaves the cursor on the credential
\* that attempt used, and every quota rejection before it moved the cursor
\* from the credential it used to the next one.
C4_SuccessLeavesCursor ==
    [][ /\ (pc[1] = "await" /\ response'[1] = "200")
            => current_key_index' = key_to_use[1]
        /\ (pc[1] = "await" /\ rejected'[1] # rejected[1])
            => current_key_index' = (key_to_use[1] + 1) % NumKeys
      ]_vars

C4_Witness ==
    /\ NumKeys >= 3
    /\ response[1] = "200"
    /\ attempts[1] >= 2
    /\ current_key_index # 0

\* C5. An attempt that fails with an error other than a quota rejection ends
\* the call at once with 500: the cursor does not move, and the call makes no
\* attempt after it.
C5_OtherErrorAborts ==
    [][ \A p \in Requests :
          /\ (pc[p] = "await" /\ modelOutcome'[p] = "Exception")
                => /\ response'[p] = "500"
                   /\ pc'[p] = "done"
                   /\ current_key_index' = current_key_index
          /\ (response[p] = "500" /\ attempts'[p] # attempts[p])
                => (attempts'[p] = 0 /\ response'[p] = "none")
      ]_vars

C5_Witness ==
    \E p \in Requests :
        /\ func[p] = "get_summary_from_gemini"
        /\ response[p] = "500"
        /\ modelOutcome[p] = "Exception"
        /\ attempts[p] = 2
        /\ rejected[p] # {}

\* C6. The cursor starts at 0 and is always an index of the credential list,
\* which never changes; the cursor changes only when a call is rejected for
\* quota, and then by one step to (cursor + 1) mod N.
C6_CursorInRange ==
    /\ current_key_index = 0
    /\ [](current_key_index \in AllKeys)
    /\ [][ /\ GEMINI_API_KEYS' = GEMINI_API_KEYS
           /\ current_key_index' # current_key_index =>
                 /\ current_key_index' = (current_key_index + 1) % NumKeys
                 /\ \E p \in Requests :
                       /\ pc[p] = "await"
                       /\ rejected'[p] = rejected[p] \cup {key_to_use[p]}
                       /\ modelOutcome'[p] = "ResourceExhausted"
         ]_vars

C6_Witness ==
    /\ NumKeys = 2
    /\ current_key_index = 0
    /\ \E p \in Requests : response[p] = "429"
    /\ \E p \in Requests : pc[p] = "await"

\* C7. Every call makes at most N attempts and at most one successful
\* underlying call, makes no attempt after that success, and while it has not
\* ended its next step is enabled, so no interleaving leaves it stuck.
C7_BoundedAttempts ==
    \A p \in Requests :
        /\ attempts[p] <= NumKeys
        /\ successes[p] <= 1
        /\ successes[p] = 1 => (pc[p] = "done" /\ response[p] = "200")
        /\ pc[p] = "read" => attempts[p] < NumKeys
        /\ pc[p] = "await" => attempts[p] = i[p] + 1
        /\ pc[p] = "done" => response[p] \in {"200", "429", "500"}
        /\ pc[p] = "read" => ENABLED ReadKey(p)
        /\ pc[p] = "await" =>
               ENABLED (Success(p) \/ QuotaRejected(p) \/ OtherError(p))

C7_Witness ==
    \E p \in Requests, q \in Requests :
        /\ p # q
        /\ NumKeys = 2
        /\ response[p] = "200" /\ attempts[p] = 2
        /\ pc[q] = "await" /\ attempts[q] = 2

(***************************************************************************)
(* Properties of the pipeline run and of its store                         *)
(***************************************************************************)
\* C8. The store is always a gap-free prefix of the cleaned outline: its k-th
\* artifact carries the k-th cleaned heading; and an agent call for entry k
\* is made only when the artifacts of the entries before k are in the store.
C8_StoreIsOutlinePrefix ==
    /\ Len(completedTutorialParts) <= Len(outlineHeadings)
    /\ \A k \in 1..Len(completedTutorialParts) :
          completedTutorialParts[k].heading = outlineHeadings[k]
    /\ \A call \in agentCalls :
          call[2] >= 1 => call[2] <= Len(completedTutorialParts) + 1
    /\ runPc \in {"agent4", "agent2"} => Len(completedTutorialParts) = planIndex

C8_Witness ==
    /\ runPc = "agent4"
    /\ Len(outlineHeadings) = 3
    /\ Len(completedTutorialParts) = 2
    /\ completedTutorialParts[1].heading # completedTutorialParts[2].heading

\* C9. When the content call for outline entry k fails, the run ends failed
\* (error set, not complete, not loading), the store holds exactly the
\* artifacts of the entries 1..k-1, and no agent call was made for an entry
\* after k.
C9_ContentFailureEndsRun ==
    contentFailedAt # 0 =>
        /\ runPc = "done"
        /\ error # "null"
        /\ ~isTutorialComplete
        /\ ~isLoading
        /\ Len(completedTutorialParts) = contentFailedAt - 1
        /\ \A k \in 1..Len(completedTutorialParts) :
              completedTutorialParts[k].heading = processingPlan[k].cleaned
        /\ \A call \in agentCalls : call[2] <= contentFailedAt

C9_Witness ==
    /\ contentFailedAt = 2
    /\ Len(processingPlan) = 3
    /\ Len(completedTutorialParts) = 1

\* C10. A search call that fails, whatever the failure (the 501 of a primary
\* phase without results and without fallback included), does not end the
\* run: the content call for that entry is made without search context, and
\* what it returns is stored as the artifact of that heading, without sources.
C10_SearchFailureIsAbsorbed ==
    \A f \in searchFailed :
        LET k == f[1] IN
        /\ <<"agent2", k>> \in agentCalls
        /\ k > Len(completedTutorialParts) =>
              \/ /\ runPc = "agent2"
                 /\ planIndex + 1 = k
                 /\ internetSearchContext = "undefined"
                 /\ isLoading
                 /\ error = "null"
              \/ contentFailedAt = k
        /\ k <= Len(completedTutorialParts) =>
              /\ completedTutorialParts[k].heading = processingPlan[k].cleaned
              /\ ~completedTutorialParts[k].sources.defined

C10_Witness ==
    /\ fetch_from_internet(Page(<<>>), FALSE, Unreachable, "200").status = 501
    /\ <<2, 501>> \in searchFailed
    /\ Len(completedTutorialParts) = 3
    /\ isTutorialComplete

(***************************************************************************)
(* Properties of the outline                                               *)
(***************************************************************************)
RECURSIVE WithoutMarker(_)
\* the heading with every "(requires_search)" taken out
WithoutMarker(s) ==
    IF s = <<>> THEN <<>>
    ELSE (IF <<Head(s)>> = MARKER THEN <<>> ELSE <<Head(s)>>)
         \o WithoutMarker(Tail(s))

\* C11. For every outline the run works on: the k-th cleaned heading is the
\* k-th raw heading with the marker removed, trimmed; the search call of entry
\* k is made only if its raw heading contains the marker, and is made for
\* every entry with the marker that the loop has reached.
C11_MarkerDecidesSearchAndIsRemoved ==
    /\ Len(outlineHeadings) = Len(processingPlan)
    /\ \A k \in 1..Len(processingPlan) :
          LET rawHeading == processingPlan[k].raw IN
          /\ outlineHeadings[k] = Trim(WithoutMarker(rawHeading))
          /\ <<"agent4", k>> \in agentCalls => Includes(rawHeading, MARKER)
          /\ (k <= planIndex + 1 /\ Includes(rawHeading, MARKER))
                 => <<"agent4", k>> \in agentCalls

\* a reply that is a list with at least one string, none of them empty
ListOfNonEmptyStrings(reply) ==
    /\ Len(reply) # 0
    /\ \A k \in 1..Len(reply) : reply[k] # <<>>

\* C12. When the outline model's reply is the empty list or holds an empty
\* string, the run has ended failed with an empty store and the outline call
\* as its only agent call.
C12_BadOutlineFailsRun ==
    (outline.defined /\ ~ListOfNonEmptyStrings(outline.list)) =>
        /\ runPc = "done"
        /\ error # "null"
        /\ ~isTutorialComplete
        /\ completedTutorialParts = <<>>
        /\ agentCalls = {<<"agent1", 0>>}

\* C13. Every entry of the plan has a heading that is not empty once the
\* marker is stripped, and the plan keeps the order of the outline returned.
C13_HeadingsNonEmptyAfterStrip ==
    /\ \A k \in 1..Len(processingPlan) : processingPlan[k].cleaned # <<>>
    /\ outline.defined /\ processingPlan # <<>> =>
          [k \in 1..Len(processingPlan) |-> processingPlan[k].raw]
              = FilterNonEmpty(outline.list)

(***************************************************************************)
(* Properties of the formatting step                                       *)
(***************************************************************************)
\* the body of a stored section: what stands between "## heading\n\n" and the
\* closing "\n\n" of fullMarkdownContent
Body(part) ==
    SubSeq(part.fullMarkdownContent,
           Len(HeadingLine(part.heading)) + 3,
           Len(part.fullMarkdownContent) - 2)

\* C14. Stripping the heading from the body of a stored section, with that
\* section's own heading, gives the body back.
C14_StripIsIdempotent ==
    \A k \in 1..Len(completedTutorialParts) :
        LET part == completedTutorialParts[k]
        IN  CleanContent(Body(part), part.heading) = Body(part)

C17_AtMostEightResults ==
    /\ Len(search_results) <= 8
    /\ Len(searchResponse.sources) <= 8

\* phase A failed: the request or the parse raised, or no structured result
\* (title, link and snippet) was extracted from the page
PhaseAFailed(primary) ==
    primary.error \/ ScrapeResults(primary.items) = <<>>

\* C18. For every request the fallback branch is entered if and only if
\* phase A failed.
C18_FallbackIffPrimaryFailed ==
    searchPc # "idle" => (fallbackEntered <=> PhaseAFailed(primaryPage))

\* C19. A request whose phase A failed, on a backend without fallback key,
\* is answered 501 with no request to the provider and no summary call; one
\* whose phase A failed and whose fallback request failed too is answered
\* with an error status.
C19_NoFallbackIsUnavailable ==
    searchPc = "done" =>
        /\ (PhaseAFailed(primaryPage) /\ ~SERPER_API_KEY) =>
               /\ searchResponse.status = 501
               /\ serperCalls = 0
               /\ summaryCalls = 0
        /\ (PhaseAFailed(primaryPage) /\ SERPER_API_KEY /\ serperReply.error) =>
               searchResponse.status \in {500, 501}

\* C20. A request whose last phase ended without error and without results
\* (the page had result divs, none of them complete; or the provider
\* answered with no organic result) is answered 200 with the fixed text and
\* no sources, and no summary call is made for it.
C20_EmptyResultIsSuccess ==
    ( /\ searchPc = "done"
      /\ \/ /\ ~primaryPage.error
            /\ primaryPage.items # <<>>
            /\ ScrapeResults(primaryPage.items) = <<>>
         \/ /\ serperCalls = 1
            /\ ~serperReply.error
            /\ serperReply.items = <<>> )
    => /\ searchResponse.status = 200
       /\ searchResponse.sources = <<>>
       /\ searchResponse.summaryText = "No relevant information could be found"
       /\ summaryCalls = 0

C20_Witness ==
    /\ searchPc = "done"
    /\ primaryPage = Unreachable
    /\ serperCalls = 1
    /\ serperReply = Page(<<>>)
    /\ searchResponse.status = 200

\* C21. A request answered 200 for a non-empty result list carries one source
\* per result of the phase that produced the list (the provider's organic
\* results when the provider was asked, the results extracted from the page
\* otherwise), in the same order, each with that result's title and link.
C21_SourcesMirrorResults ==
    (searchPc = "done" /\ searchResponse.status = 200 /\ search_results # <<>>) =>
        LET produced == IF serperCalls = 1 THEN serperReply.items
                        ELSE ScrapeResults(primaryPage.items)
        IN  /\ Len(searchResponse.sources) = Len(produced)
            /\ \A k \in 1..Len(produced) :
                   /\ searchResponse.sources[k].title = Title(produced[k])
                   /\ searchResponse.sources[k].uri = Link(produced[k])

C21_Witness ==
    /\ searchPc = "done"
    /\ searchResponse.status = 200
    /\ serperCalls = 1
    /\ Len(searchResponse.sources) >= 2

(***************************************************************************)
(* Further properties of the key pool                                      *)
(***************************************************************************)
\* C22. Whenever a call advances the cursor because the credential it read at
\* index c was rejected for quota, the cursor is at c before the advance and
\* at (c + 1) mod N after it, whatever the other calls in flight do.
C22_AdvanceIsFromTheKeyRead ==
    [][ \A p \in Requests :
            ( /\ pc[p] = "await"
              /\ pc'[p] # "await"
              /\ FuncRaises(func[p], modelOutcome'[p]) = "ResourceExhausted" )
            => /\ current_key_index = key_to_use[p]
               /\ current_key_index' = (key_to_use[p] + 1) % NumKeys
      ]_vars

(***************************************************************************)
(* Further properties of the pipeline run                                  *)
(***************************************************************************)
\* C23. A run is in progress exactly while the page is loading, and while it
\* is loading no submission can start a run: no step of a loading page calls
\* agent 1 afresh, the outline is set once by the run in progress, and the
\* store changes only by that run's append of the artifact of its next entry.
C23_OneRunAtATime ==
    /\ [](isLoading <=> runPc \in {"agent1", "agent4", "agent2"})
    /\ [](isLoading => ~ENABLED StartRun)
    /\ [][ isLoading =>
              /\ runPc' = "agent1" => runPc = "agent1"
              /\ outlineHeadings' # outlineHeadings =>
                     (runPc = "agent1" /\ outlineHeadings = <<>>)
              /\ completedTutorialParts' # completedTutorialParts =>
                     /\ runPc = "agent2"
                     /\ Len(completedTutorialParts') = Len(completedTutorialParts) + 1
                     /\ SubSeq(completedTutorialParts', 1, Len(completedTutorialParts))
                            = completedTutorialParts
                     /\ completedTutorialParts'[Len(completedTutorialParts')].heading
                            = outlineHeadings[Len(completedTutorialParts')]
         ]_vars

C23_Witness ==
    /\ isLoading
    /\ runPc = "agent2"
    /\ Len(completedTutorialParts) >= 1
    /\ ~ENABLED StartRun
    /\ ~ENABLED RejectBlankTopic

\* C24. The pending content call of the first entry was given the fixed
\* first-section context; the pending content call of a later entry was given
\* the heading of the artifact stored just before it, the first 100 characters
\* of that artifact's body (the whole body when it is shorter) and the mark
\* that more follows exactly when the body is longer; every content call was
\* given its own heading and the whole cleaned heading list.
C24_ContextFromPreviousArtifact ==
    runPc = "agent2" =>
        /\ Agent2Arguments.cleanedHeadings = outlineHeadings
        /\ Len(Agent2Arguments.cleanedHeadings) = Len(processingPlan)
        /\ Agent2Arguments.heading = outlineHeadings[planIndex + 1]
        /\ planIndex = 0 => Agent2Arguments.previousSectionContext = FirstSectionContext
        /\ planIndex > 0 =>
               LET previous == completedTutorialParts[planIndex]
                   given == Agent2Arguments.previousSectionContext
               IN  /\ ~given.first
                   /\ given.heading = previous.heading
                   /\ Len(given.start) <= 100
                   /\ Len(given.start) = Min(100, Len(Body(previous)))
                   /\ given.start = SubSeq(Body(previous), 1, Len(given.start))
                   /\ given.more <=> Len(Body(previous)) > 100

C24_Witness ==
    /\ runPc = "agent2"
    /\ planIndex = 2
    /\ Len(Body(completedTutorialParts[1])) < 100
    /\ Len(Body(completedTutorialParts[2])) = 101
    /\ Len(previousSectionContext.start) = 100
    /\ previousSectionContext.more

\* the messages the catch of a run sets
RunFailures == {"Agent 1 (Outliner)", "Agent 2 (Content Writer)"}

\* C25. isTutorialComplete is true only of a run that ended with the artifact
\* of every outline entry in the store, in outline order, whose content calls
\* all returned and which set no failure message; the step that sets it leaves
\* no error set; and the "Tutorial Ready!" banner is rendered only for such a
\* run.
C25_CompleteOnlyWithEveryArtifact ==
    /\ [](isTutorialComplete =>
             /\ runPc = "done"
             /\ ~isLoading
             /\ Len(outlineHeadings) > 0
             /\ Len(completedTutorialParts) = Len(outlineHeadings)
             /\ \A k \in 1..Len(outlineHeadings) :
                    completedTutorialParts[k].heading = outlineHeadings[k]
             /\ contentFailedAt = 0
             /\ error \notin RunFailures)
    /\ [](TutorialReady => (isTutorialComplete /\ error \notin RunFailures))
    /\ [][ (~isTutorialComplete /\ isTutorialComplete') =>
              (error' = "null" /\ runPc = "agent2" /\ TutorialReady') ]_vars

C25_Witness ==
    /\ TutorialReady
    /\ Len(completedTutorialParts) = 3
    /\ searchFailed # {}

(***************************************************************************)
(* Further properties of the search backend                                *)
(***************************************************************************)
\* C26. A search request whose summary call had every credential of the pool
\* rejected for quota, so that the wrapper raised 429, is answered 429.
C26_SummaryQuotaReachesClient ==
    ( /\ searchPc = "done"
      /\ summaryCalls = 1
      /\ response[1] = "429"
      /\ rejected[1] = AllKeys )
    => searchResponse.status = 429

(***************************************************************************)
(* Further properties of the stored sections                               *)
(***************************************************************************)
RECURSIVE FirstLine(_)
\* the text before the first line break
FirstLine(text) ==
    IF text = <<>> \/ Head(text) = "\n" THEN <<>>
    ELSE <<Head(text)>> \o FirstLine(Tail(text))

\* the output with its first line removed when that line is the heading line
\* of the section, and the output as it is otherwise
WithoutEchoedHeading(rawContent, heading) ==
    IF FirstLine(Trim(rawContent)) = HeadingLine(heading)
    THEN Trim(SubstringFrom(Trim(rawContent), Len(HeadingLine(heading))))
    ELSE Trim(rawContent)

\* C27. The body of every stored section is an output of the content model
\* with its first line removed only if that line equals "## <heading>" of
\* the section: an output that begins with a longer heading keeps all of it.
C27_StripOnlyTheHeadingLine ==
    \A k \in 1..Len(completedTutorialParts) :
        LET part == completedTutorialParts[k]
        IN  Body(part) \in
                { WithoutEchoedHeading(rawContent, part.heading) :
                      rawContent \in EchoContents }

(***************************************************************************)
(* Properties of the section count                                         *)
(***************************************************************************)
\* C28. A run that is complete has stored as many artifacts as the section
\* count that was submitted for it.
C28_CompleteHasRequestedCount ==
    isTutorialComplete => Len(completedTutorialParts) = validNumSections

\* C29. The section count handed over by a submission is an integer from 3 to
\* 10 whatever the field holds: the field's number when that lies in 3..10,
\* 3 when the field is empty, 0 or below 3, and 10 when it is above 10.
C29_SubmittedCountIsClamped ==
    [][ (~isLoading /\ isLoading') =>
            /\ validNumSections' \in 3..10
            /\ numSections \in 3..10 => validNumSections' = numSections
            /\ numSections < 3 => validNumSections' = 3
            /\ numSections > 10 => validNumSections' = 10
            /\ numSections' = numSections
      ]_vars

C29_Witness ==
    /\ isLoading
    /\ numSections = 0 - 2
    /\ validNumSections = 3

(***************************************************************************)
(* Properties of the validation of the topic                               *)
(***************************************************************************)
\* C30. The step that sets the validation error makes no agent call and
\* leaves the store, the outline, isLoading, isTutorialComplete and the run
\* where they were; and no run is ever started, and no agent called, with a
\* topic that is empty or of white space only.
C30_BlankTopicOnlySetsError ==
    /\ [][ (error' = "Please enter a tutorial topic." /\ error' # error) =>
              /\ agentCalls' = agentCalls
              /\ completedTutorialParts' = completedTutorialParts
              /\ outlineHeadings' = outlineHeadings
              /\ isLoading' = isLoading
              /\ isTutorialComplete' = isTutorialComplete
              /\ runPc' = runPc
              /\ topic' = topic
         ]_vars
    /\ [](agentCalls # {} => Trim(topic) # <<>>)
    /\ [][ agentCalls' # agentCalls => Trim(topic') # <<>> ]_vars

C30_Witness ==
    /\ error = "Please enter a tutorial topic."
    /\ isTutorialComplete
    /\ Len(completedTutorialParts) = 2
    /\ ~isLoading

====
